---- MODULE Spec2Model ----
(***************************************************************************)
(* Model of the hh.ru ingestion program: src/main.py (fetch with retry,    *)
(* validation, conflict-skipping inserts), src/hh_api.py (the remote       *)
(* calls), src/db_utils.py (the schema) and src/db_manager.py (the         *)
(* reporting queries).                                                     *)
(*                                                                         *)
(* Values.  A nullable scalar (Python None / SQL NULL) is a set with at    *)
(* most one element: {} is None/NULL, {x} is the value x.  A Python dict   *)
(* is a function from its keys; a value whose Python type matters          *)
(* (isinstance, attribute access) is a record [type, items].               *)
(* A table is the sequence of its rows in insertion order, so a duplicate  *)
(* row can be told from a single one.  The SERIAL id column is left out:   *)
(* no statement of the program reads it except COUNT(v.id).                *)
(***************************************************************************)
EXTENDS Integers, Sequences, FiniteSets, TLC

\* ---------------------------------------------------------------- bounds
\* number of employer ids in main's employer_ids list (the program has 11)
NumEmployers == 2
\* longest "items" list one remote vacancies call answers with
MaxItems == 1
\* largest salary bound the remote reports (reporting specification)
MaxSalary == 2
\* number of vacancy ids the remote knows (reporting specification)
NumVacancies == 3

\* ---------------------------------------------------------------- values
None == {}
Some(x) == {x}
EmptyDict == << >>
PyDict(d) == [type |-> "dict", items |-> d]
PyNone == [type |-> "NoneType", items |-> EmptyDict]
PyStr == [type |-> "str", items |-> EmptyDict]

\* dict.get(key, default)
Get(d, k, default) == IF k \in DOMAIN d THEN d[k] ELSE default

\* the value of a one-element option
The(o) == CHOOSE x \in o : TRUE

RECURSIVE Pow2(_)
Pow2(n) == IF n = 0 THEN 1 ELSE 2 * Pow2(n - 1)

\* ------------------------------------------------------ the store (SQL)
\* A transaction works on its own copy of the tables.  status "aborted" is
\* PostgreSQL's failed-transaction state: a statement that raised an error
\* leaves the transaction aborted, every later statement raises
\* InFailedSqlTransaction, and COMMIT then rolls back.
Begin(emps, vacs) == [status |-> "ok", employers |-> emps, vacancies |-> vacs]

HasEmployer(emps, eid) == \E i \in 1..Len(emps) : emps[i].employer_id = eid
HasVacancy(vacs, vid) == \E i \in 1..Len(vacs) : vacs[i].vacancy_id = vid

\* NOT NULL columns of employers: employer_id, name
EmployerNotNullOk(row) == row.employer_id # None /\ row.name # None
\* NOT NULL columns of vacancies: vacancy_id, title
VacancyNotNullOk(row) == row.vacancy_id # None /\ row.title # None
\* variant: the column declared without REFERENCES
VacancyFkOk_Unchecked(emps, row) == TRUE

\* employer_id INT REFERENCES employers(employer_id): NULL passes
VacancyFkOk(emps, row) == row.employer_id = None \/ HasEmployer(emps, row.employer_id)

\* INSERT INTO employers ... ON CONFLICT (employer_id) DO NOTHING
\* result: "ok" (row inserted), "conflict" (skipped), "error" (raised)
ExecInsertEmployer(tx, row) ==
    IF tx.status = "aborted"
    THEN [tx |-> tx, res |-> "error"]
    ELSE IF ~EmployerNotNullOk(row)
    THEN [tx |-> [tx EXCEPT !.status = "aborted"], res |-> "error"]
    ELSE IF HasEmployer(tx.employers, row.employer_id)
    THEN [tx |-> tx, res |-> "conflict"]
    ELSE [tx |-> [tx EXCEPT !.employers = Append(@, row)], res |-> "ok"]

\* variant: the INSERT without its ON CONFLICT clause, so that an existing
\* vacancy_id is a unique violation
ExecInsertVacancy_NoConflictClause(tx, row) ==
    IF tx.status = "aborted"
    THEN [tx |-> tx, res |-> "error"]
    ELSE IF row.vacancy_id = None \/ row.title = None
    THEN [tx |-> [tx EXCEPT !.status = "aborted"], res |-> "error"]
    ELSE IF HasVacancy(tx.vacancies, row.vacancy_id)
    THEN [tx |-> [tx EXCEPT !.status = "aborted"], res |-> "error"]
    ELSE IF row.employer_id # None /\ ~HasEmployer(tx.employers, row.employer_id)
    THEN [tx |-> [tx EXCEPT !.status = "aborted"], res |-> "error"]
    ELSE [tx |-> [tx EXCEPT !.vacancies = Append(@, row)], res |-> "ok"]

\* INSERT INTO vacancies ... ON CONFLICT (vacancy_id) DO NOTHING
ExecInsertVacancy(tx, row) ==
    IF tx.status = "aborted"
    THEN [tx |-> tx, res |-> "error"]
    ELSE IF ~VacancyNotNullOk(row)
    THEN [tx |-> [tx EXCEPT !.status = "aborted"], res |-> "error"]
    ELSE IF HasVacancy(tx.vacancies, row.vacancy_id)
    THEN [tx |-> tx, res |-> "conflict"]
    ELSE IF ~VacancyFkOk(tx.employers, row)
    THEN [tx |-> [tx EXCEPT !.status = "aborted"], res |-> "error"]
    ELSE [tx |-> [tx EXCEPT !.vacancies = Append(@, row)], res |-> "ok"]

\* conn.commit(): the tables after COMMIT, given the tables before BEGIN
Commit(tx, emps, vacs) ==
    IF tx.status = "ok"
    THEN [employers |-> tx.employers, vacancies |-> tx.vacancies]
    ELSE [employers |-> emps, vacancies |-> vacs]

\* ------------------------------------------------------------ validation
\* variant: the employer reference not required
required_fields_NoEmployer == <<"id", "name">>

required_fields == <<"id", "name", "employer">>

\* validate_data: the first required field that is missing rejects
RECURSIVE ValidateFrom(_, _)
ValidateFrom(vacancy, k) ==
    IF k > Len(required_fields) THEN TRUE
    ELSE IF required_fields[k] \notin DOMAIN vacancy THEN FALSE
    ELSE ValidateFrom(vacancy, k + 1)

validate_data(vacancy) == ValidateFrom(vacancy, 1)

\* ------------------------------------------------------------ the inserts
\* the parameter tuple of insert_employers' INSERT
EmployerRow(employer) ==
    [employer_id |-> Get(employer, "id", None),
     name |-> Get(employer, "name", Some("")),
     url |-> Get(employer, "alternate_url", Some(""))]

\* the body of insert_employers' loop for one record
InsertEmployerStep(tx, employer) == ExecInsertEmployer(tx, EmployerRow(employer))

\* the loop of insert_employers over data[k..]: the transaction and the
\* outcome of every record ("ok", "conflict", "error")
RECURSIVE InsertEmployersFrom(_, _, _, _)
InsertEmployersFrom(data, k, tx, log) ==
    IF k > Len(data) THEN [tx |-> tx, log |-> log]
    ELSE LET r == InsertEmployerStep(tx, data[k])
         IN InsertEmployersFrom(data, k + 1, r.tx, Append(log, r.res))

\* insert_employers(data, conn): the tables after its commit, and the log
insert_employers(data, emps, vacs) ==
    LET r == InsertEmployersFrom(data, 1, Begin(emps, vacs), << >>)
        c == Commit(r.tx, emps, vacs)
    IN [employers |-> c.employers, vacancies |-> c.vacancies, log |-> r.log]

\* salary = vacancy.get("salary", {}); if not isinstance(salary, dict): salary = {}
SalaryOf(vacancy) ==
    LET salary == Get(vacancy, "salary", PyDict(EmptyDict))
    IN IF salary.type = "dict" THEN salary.items ELSE EmptyDict

\* the parameter tuple of insert_vacancies' INSERT; employer is a dict here
VacancyRow(vacancy, employer) ==
    [vacancy_id |-> Get(vacancy, "id", None),
     title |-> Get(vacancy, "name", Some("")),
     salary_from |-> Get(SalaryOf(vacancy), "from", None),
     salary_to |-> Get(SalaryOf(vacancy), "to", None),
     currency |-> Get(SalaryOf(vacancy), "currency", None),
     employer_id |-> Get(employer, "id", None),
     url |-> Get(vacancy, "alternate_url", Some(""))]

\* the body of insert_vacancies' loop for one record: "skipped" when
\* validate_data rejects it; "error" without any statement when employer is
\* not a dict (employer.get raises inside the try); otherwise the INSERT
InsertVacancyStep(tx, vacancy) ==
    IF ~validate_data(vacancy)
    THEN [tx |-> tx, res |-> "skipped"]
    ELSE LET employer == Get(vacancy, "employer", PyDict(EmptyDict))
         IN IF employer.type # "dict"
            THEN [tx |-> tx, res |-> "error"]
            ELSE ExecInsertVacancy(tx, VacancyRow(vacancy, employer.items))

RECURSIVE InsertVacanciesFrom(_, _, _, _)
InsertVacanciesFrom(data, k, tx, log) ==
    IF k > Len(data) THEN [tx |-> tx, log |-> log]
    ELSE LET r == InsertVacancyStep(tx, data[k])
         IN InsertVacanciesFrom(data, k + 1, r.tx, Append(log, r.res))

\* insert_vacancies(data, conn): the tables after its commit, and the log
insert_vacancies(data, emps, vacs) ==
    LET r == InsertVacanciesFrom(data, 1, Begin(emps, vacs), << >>)
        c == Commit(r.tx, emps, vacs)
    IN [employers |-> c.employers, vacancies |-> c.vacancies, log |-> r.log]

\* -------------------------------------------------------- the remote API
Retries == 3

employer_ids == [k \in 1..NumEmployers |-> k]

\* what GET /employers/{id} answers with on status 200
EmployerJson(e) ==
    [id |-> Some(e), name |-> Some("employer"), alternate_url |-> Some("url")]

\* one remote call ends in one of: "ok" (status 200), "non200" (any other
\* status), "raise" (requests or the JSON decoder raised)
Outcomes == {"ok", "non200", "raise"}

\* Hh_Api.get_employer: response.json() if status_code == 200 else {}
get_employer(e, outcome) ==
    IF outcome = "raise" THEN [raised |-> TRUE, value |-> EmptyDict]
    ELSE IF outcome = "ok" THEN [raised |-> FALSE, value |-> EmployerJson(e)]
    ELSE [raised |-> FALSE, value |-> EmptyDict]

\* Hh_Api.get_vacancies: response.json().get("items", []) if 200 else []
get_vacancies(outcome, items) ==
    IF outcome = "raise" THEN [raised |-> TRUE, value |-> << >>]
    ELSE IF outcome = "ok" THEN [raised |-> FALSE, value |-> items]
    ELSE [raised |-> FALSE, value |-> << >>]

\* a well-formed vacancy object of employer e
VacancyJson(v, e) ==
    [id |-> Some(v), name |-> Some("title"),
     employer |-> PyDict([id |-> Some(e)]), alternate_url |-> Some("url")]

\* d without key k
Without(d, k) == [x \in DOMAIN d \ {k} |-> d[x]]

\* the vacancy objects the remote may list for employer e (ingestion
\* specification): well-formed, one required key missing, a null id, a null
\* employer
RawVacanciesOf(e) ==
    {VacancyJson(e, e)}
    \cup {Without(VacancyJson(e, e), k) : k \in {"id", "name", "employer"}}
    \cup {[VacancyJson(e, e) EXCEPT !.id = None],
          [VacancyJson(e, e) EXCEPT !.employer = PyNone]}

\* the sequences over S of length at most n
RECURSIVE SeqsUpTo(_, _)
SeqsUpTo(S, n) ==
    IF n = 0 THEN {<< >>}
    ELSE LET shorter == SeqsUpTo(S, n - 1)
         IN shorter \cup {Append(s, x) : s \in shorter, x \in S}

ItemLists(e) == SeqsUpTo(RawVacanciesOf(e), MaxItems)

\* ---------------------------------------------------- retry with backoff
\* variant: linear instead of exponential backoff
wait_time_Linear(attempt) == 2 * attempt

\* wait_time = 2**attempt
wait_time(attempt) == Pow2(attempt)

\* no call of get_vacancies_with_retry in progress or finished
NoCall ==
    [status |-> "none", attempt |-> 0, attempts |-> 0, raised |-> 0,
     delays |-> << >>, last |-> "none", answer |-> << >>, result |-> << >>]

\* One iteration of get_vacancies_with_retry's loop, for the remote
\* call's outcome.  c.attempt is the loop variable; attempts, raised, delays
\* last and answer record what happened (calls made, calls that raised, the
\* sleeps in order, the last outcome and the items of the last answer).  status "returned" is the return inside the
\* try, "exhausted" the return [] after the loop.
RetryStep(c, retries, outcome, items) ==
    LET r == get_vacancies(outcome, items)
        seen == [c EXCEPT !.attempts = @ + 1, !.last = outcome,
                          !.answer = IF outcome = "ok" THEN items ELSE << >>]
    IN IF ~r.raised
       THEN [seen EXCEPT !.status = "returned", !.result = r.value]
       ELSE IF c.attempt < retries
       THEN [seen EXCEPT !.status = "running", !.raised = @ + 1,
                         !.attempt = @ + 1,
                         !.delays = Append(@, wait_time(c.attempt))]
       ELSE [seen EXCEPT !.status = "exhausted", !.raised = @ + 1,
                         !.result = << >>]

\* ------------------------------------------------- the reporting queries
\* WHERE salary_from IS NOT NULL AND salary_to IS NOT NULL
BothBounds(row) == row.salary_from # None /\ row.salary_to # None

\* (salary_from + salary_to) / 2 on INT columns: integer division (the
\* salaries of the model are not negative, so truncation is the floor)
Midpoint(row) == (The(row.salary_from) + The(row.salary_to)) \div 2

RECURSIVE SumSeq(_)
SumSeq(s) == IF s = << >> THEN 0 ELSE Head(s) + SumSeq(Tail(s))

\* the midpoints AVG((salary_from + salary_to) / 2) aggregates: a row with a
\* NULL bound gives NULL, which AVG leaves out
Midpoints(vacs) ==
    LET priced == SelectSeq(vacs, BothBounds)
    IN [k \in 1..Len(priced) |-> Midpoint(priced[k])]

\* ROUND of the numeric p/q (q > 0, p >= 0): half away from zero
RoundDiv(p, q) == (2 * p + q) \div (2 * q)

\* DBManager.get_avg_salary: an aggregate without GROUP BY answers with
\* exactly one row; over no rows AVG is NULL
get_avg_salary(vacs) ==
    LET m == Midpoints(vacs)
    IN IF Len(m) = 0 THEN << <<None>> >>
       ELSE << <<Some(RoundDiv(SumSeq(m), Len(m)))>> >>

\* variant: the subquery rounded as get_avg_salary rounds
HigherThanAvg_Rounded(row, m) ==
    /\ BothBounds(row)
    /\ Len(m) > 0
    /\ Midpoint(row) > RoundDiv(SumSeq(m), Len(m))

\* the WHERE clause of get_vacancies_with_higher_salary for one row, given
\* the midpoints the subquery averages (unrounded): NULL > x and x > NULL
\* are not true
HigherThanAvg(row, m) ==
    /\ BothBounds(row)
    /\ Len(m) > 0
    /\ Midpoint(row) * Len(m) > SumSeq(m)

\* DBManager.get_vacancies_with_higher_salary: (title, midpoint) rows
get_vacancies_with_higher_salary(vacs) ==
    LET m == Midpoints(vacs)
        Keep(row) == HigherThanAvg(row, m)
        kept == SelectSeq(vacs, Keep)
    IN [k \in 1..Len(kept) |->
           [title |-> kept[k].title, avg_salary |-> Midpoint(kept[k])]]

\* user_interface, choice "3": the branch it prints
AvgSalaryText(avg_salary) ==
    IF Len(avg_salary) > 0 /\ Len(avg_salary[1]) > 0 THEN "value" ELSE "absent"

\* the salary values of the vacancy objects the remote lists (reporting
\* specification): no salary key, null, not an object, an object whose
\* bounds are null or a number
Bounds == {None} \cup {Some(x) : x \in 1..MaxSalary}
SalaryJsons ==
    {PyNone, PyStr} \cup {PyDict([from |-> f, to |-> t]) : f \in Bounds, t \in Bounds}

RawVacanciesQ ==
    {VacancyJson(v, 1) : v \in 1..NumVacancies}
    \cup {VacancyJson(v, 1) @@ ("salary" :> sal) :
              v \in 1..NumVacancies, sal \in SalaryJsons}

\* ------------------------------------------------------------- the state
VARIABLES
    employers,        \* table employers (committed rows)
    vacancies,        \* table vacancies (committed rows)
    pc,               \* where main is
    i,                \* index into employer_ids of the running fetch loop
    employers_data,   \* main's list employers_data
    vacancies_data,   \* main's list vacancies_data
    emp_fetch,        \* the outcome of each get_employer call of this run
    call,             \* the running or last get_vacancies_with_retry call
    log_e,            \* outcome per record of the last insert_employers
    log_v,            \* outcome per record of the last insert_vacancies
    rerun,            \* this run repeats the previous run's fetched data
    prev,             \* tables and errors at the end of the previous run
    shown             \* what the menu printed last

vars == <<employers, vacancies, pc, i, employers_data, vacancies_data,
          emp_fetch, call, log_e, log_v, rerun, prev, shown>>

NoPrev == [employers |-> << >>, vacancies |-> << >>, err |-> FALSE]
NothingShown == [choice |-> "none", rows |-> << >>, text |-> "none"]

HasError(log) == \E k \in 1..Len(log) : log[k] = "error"

\* the state after create_database and create_tables on a fresh server
Init ==
    /\ employers = << >>
    /\ vacancies = << >>
    /\ pc = "fetch_employers"
    /\ i = 1
    /\ employers_data = << >>
    /\ vacancies_data = << >>
    /\ emp_fetch = << >>
    /\ call = NoCall
    /\ log_e = << >>
    /\ log_v = << >>
    /\ rerun = FALSE
    /\ prev = NoPrev
    /\ shown = NothingShown

\* main, lines 130-136: one iteration of the employer fetch loop
FetchEmployer(outcome) ==
    /\ pc = "fetch_employers"
    /\ LET r == get_employer(employer_ids[i], outcome)
       IN employers_data' =
              IF r.raised THEN employers_data ELSE Append(employers_data, r.value)
    /\ emp_fetch' = Append(emp_fetch, outcome)
    /\ IF i < NumEmployers
       THEN i' = i + 1 /\ pc' = pc
       ELSE i' = 1 /\ pc' = "fetch_vacancies"
    /\ UNCHANGED <<employers, vacancies, vacancies_data, call, log_e, log_v,
                   rerun, prev, shown>>

\* main, lines 140-143, and get_vacancies_with_retry: one remote call of
\* the running retry loop; when the loop returns, main extends
\* vacancies_data and moves to the next employer id
FetchVacanciesAttempt(outcome, items) ==
    /\ pc = "fetch_vacancies"
    /\ LET c0 == IF call.status = "running" THEN call
                 ELSE [NoCall EXCEPT !.status = "running"]
           c1 == RetryStep(c0, Retries, outcome, items)
       IN /\ call' = c1
          /\ IF c1.status = "running"
             THEN UNCHANGED <<vacancies_data, i, pc>>
             ELSE /\ vacancies_data' = vacancies_data \o c1.result
                  /\ IF i < NumEmployers
                     THEN i' = i + 1 /\ pc' = pc
                     ELSE i' = 1 /\ pc' = "connect"
    /\ UNCHANGED <<employers, vacancies, employers_data, emp_fetch, log_e,
                   log_v, rerun, prev, shown>>

\* main, line 146: psycopg2.connect; a failure ends main in its except
Connect(ok) ==
    /\ pc = "connect"
    /\ pc' = IF ok THEN "insert_employers" ELSE "done"
    /\ call' = NoCall
    /\ emp_fetch' = << >>
    /\ UNCHANGED <<employers, vacancies, i, employers_data, vacancies_data,
                   log_e, log_v, rerun, prev, shown>>

\* main, line 152: insert_employers(employers_data, conn)
InsertEmployers ==
    /\ pc = "insert_employers"
    /\ LET r == insert_employers(employers_data, employers, vacancies)
       IN /\ employers' = r.employers
          /\ vacancies' = r.vacancies
          /\ log_e' = r.log
    /\ pc' = "insert_vacancies"
    /\ UNCHANGED <<i, employers_data, vacancies_data, emp_fetch, call, log_v,
                   rerun, prev, shown>>

\* main, line 153: insert_vacancies(vacancies_data, conn)
InsertVacancies ==
    /\ pc = "insert_vacancies"
    /\ LET r == insert_vacancies(vacancies_data, employers, vacancies)
       IN /\ employers' = r.employers
          /\ vacancies' = r.vacancies
          /\ log_v' = r.log
    /\ pc' = "done"
    /\ UNCHANGED <<i, employers_data, vacancies_data, emp_fetch, call, log_e,
                   rerun, prev, shown>>

\* the program is started again and fetches afresh
NewRun ==
    /\ pc = "done"
    /\ pc' = "fetch_employers"
    /\ i' = 1
    /\ employers_data' = << >>
    /\ vacancies_data' = << >>
    /\ emp_fetch' = << >>
    /\ call' = NoCall
    /\ log_e' = << >>
    /\ log_v' = << >>
    /\ rerun' = FALSE
    /\ prev' = NoPrev
    /\ UNCHANGED <<employers, vacancies, shown>>

\* the program is started again and every remote call answers as it did in
\* the run that just ended, so both fetch loops build the same two lists
Rerun ==
    /\ pc = "done"
    /\ Len(log_v) = Len(vacancies_data)
    /\ Len(log_e) = Len(employers_data)
    /\ pc' = "insert_employers"
    /\ rerun' = TRUE
    /\ prev' = [employers |-> employers, vacancies |-> vacancies,
                err |-> HasError(log_e) \/ HasError(log_v)]
    /\ log_e' = << >>
    /\ log_v' = << >>
    /\ UNCHANGED <<employers, vacancies, i, employers_data, vacancies_data,
                   emp_fetch, call, shown>>

\* ---------------------------------------------- reporting specification
\* One start of the program up to its menu: main fetches every employer
\* (all found) and the vacancy lists, then insert_employers and
\* insert_vacancies run on the one connection.  The lists are locals of
\* main and are gone when the menu starts.
Ingest(ed, vd) ==
    /\ pc = "start"
    /\ LET r1 == insert_employers(ed, employers, vacancies)
           r2 == insert_vacancies(vd, r1.employers, r1.vacancies)
       IN /\ employers' = r2.employers
          /\ vacancies' = r2.vacancies
    /\ pc' = "menu"
    /\ shown' = NothingShown
    /\ UNCHANGED <<i, employers_data, vacancies_data, emp_fetch, call, log_e,
                   log_v, rerun, prev>>

\* user_interface, choice "3"
MenuAvgSalary ==
    /\ pc = "menu"
    /\ LET avg_salary == get_avg_salary(vacancies)
       IN shown' = [choice |-> "3", rows |-> avg_salary,
                    text |-> AvgSalaryText(avg_salary)]
    /\ UNCHANGED <<employers, vacancies, pc, i, employers_data, vacancies_data,
                   emp_fetch, call, log_e, log_v, rerun, prev>>

\* user_interface, choice "4"
MenuHigherSalary ==
    /\ pc = "menu"
    /\ shown' = [choice |-> "4",
                 rows |-> get_vacancies_with_higher_salary(vacancies),
                 text |-> "rows"]
    /\ UNCHANGED <<employers, vacancies, pc, i, employers_data, vacancies_data,
                   emp_fetch, call, log_e, log_v, rerun, prev>>

\* user_interface, choice "0"; the program may be started again
MenuExit ==
    /\ pc = "menu"
    /\ pc' = "start"
    /\ shown' = NothingShown
    /\ UNCHANGED <<employers, vacancies, i, employers_data, vacancies_data,
                   emp_fetch, call, log_e, log_v, rerun, prev>>

AllEmployers == [k \in 1..NumEmployers |-> EmployerJson(employer_ids[k])]

InitQ ==
    /\ employers = << >>
    /\ vacancies = << >>
    /\ pc = "start"
    /\ i = 1
    /\ employers_data = << >>
    /\ vacancies_data = << >>
    /\ emp_fetch = << >>
    /\ call = NoCall
    /\ log_e = << >>
    /\ log_v = << >>
    /\ rerun = FALSE
    /\ prev = NoPrev
    /\ shown = NothingShown

NextQ ==
    \/ \E vd \in SeqsUpTo(RawVacanciesQ, MaxItems) : Ingest(AllEmployers, vd)
    \/ MenuAvgSalary
    \/ MenuHigherSalary
    \/ MenuExit

SpecQ == InitQ /\ [][NextQ]_vars

Next ==
    \/ \E outcome \in Outcomes : FetchEmployer(outcome)
    \/ \E outcome \in Outcomes, items \in ItemLists(employer_ids[i]) :
           FetchVacanciesAttempt(outcome, items)
    \/ \E ok \in BOOLEAN : Connect(ok)
    \/ InsertEmployers
    \/ InsertVacancies
    \/ NewRun
    \/ Rerun

Spec == Init /\ [][Next]_vars

\* ================================================================ claims
UniqueKeys ==
    /\ \A a, b \in 1..Len(employers) :
           employers[a].employer_id = employers[b].employer_id => a = b
    /\ \A a, b \in 1..Len(vacancies) :
           vacancies[a].vacancy_id = vacancies[b].vacancy_id => a = b

\* both insert batches of the run have been carried out
BatchesDone ==
    /\ pc = "done"
    /\ Len(log_e) = Len(employers_data)
    /\ Len(log_v) = Len(vacancies_data)

\* ---- C1
\* C1 as stated: a second run over the same fetched data leaves the rows of
\* the first run, without duplicates, and raises no error.
C1_Original ==
    (BatchesDone /\ rerun) =>
        /\ employers = prev.employers
        /\ vacancies = prev.vacancies
        /\ UniqueKeys
        /\ ~HasError(log_e) /\ ~HasError(log_v)

\* C1 amended: a second run over the same fetched data leaves exactly the
\* employer and vacancy rows of the first run (no duplicate key, no row
\* changed), and it raises an insert error only if the first run raised one:
\* a unique-key conflict is never an error.
C1_Idempotent ==
    /\ UniqueKeys
    /\ (rerun /\ pc \in {"insert_vacancies", "done"}) => employers = prev.employers
    /\ (BatchesDone /\ rerun) =>
           /\ vacancies = prev.vacancies
           /\ (HasError(log_e) \/ HasError(log_v)) => prev.err

\* a second run that met rows of the first in both tables
C1_Witness ==
    /\ BatchesDone /\ rerun
    /\ \E k \in 1..Len(log_e) : log_e[k] = "conflict"
    /\ \E k \in 1..Len(log_v) : log_v[k] = "conflict"
    /\ ~prev.err

\* ---- C2
Backoff(f) == [k \in 1..f |-> Pow2(k - 1)]

\* C2: a call of get_vacancies_with_retry whose fetch raised f <= Retries
\* times and then answered returns that answer after exactly f+1 attempts,
\* having slept 2^(k-1) before attempt k; a fetch that always raises ends
\* after exactly Retries+1 attempts with the empty list, having slept before
\* each attempt but the first; the call never ends any other way.
C2_RetryPolicy ==
    /\ call.status \in {"none", "running", "returned", "exhausted"}
    /\ call.status = "returned" =>
           /\ call.raised <= Retries
           /\ call.attempts = call.raised + 1
           /\ call.delays = Backoff(call.raised)
           /\ call.result = call.answer
    /\ call.status = "exhausted" =>
           /\ call.raised = Retries + 1
           /\ call.attempts = Retries + 1
           /\ call.delays = Backoff(Retries)
           /\ call.result = << >>
    /\ call.status = "running" =>
           /\ call.attempts = call.raised
           /\ call.attempts <= Retries
           /\ call.delays = Backoff(call.raised)

\* two failures, then an answer with items: slept 1 + 2 = 3
C2_Witness ==
    /\ call.status = "returned"
    /\ call.raised = 2
    /\ call.last = "ok"
    /\ Len(call.result) > 0
    /\ SumSeq(call.delays) = 3

\* ---- C3
\* C3: a non-success answer of the vacancies call counts as a failed attempt:
\* unless it was the last attempt allowed, the call goes on to retry.
C3_NonSuccessRetried ==
    (call.last = "non200" /\ call.attempts <= Retries) => call.status = "running"

\* ---- C4
\* a record of an employer batch whose insert is valid on its own
EmployerValidAlone(employer) == EmployerNotNullOk(EmployerRow(employer))

\* a record of a vacancy batch whose insert is valid on its own, the
\* employers table being emps
VacancyValidAlone(vacancy, emps) ==
    /\ {"id", "name", "employer"} \subseteq DOMAIN vacancy
    /\ vacancy.employer.type = "dict"
    /\ vacancy.id # None /\ vacancy.name # None
    /\ LET eid == Get(vacancy.employer.items, "id", None)
       IN eid = None \/ HasEmployer(emps, eid)

\* C4: after a batch's commit every record of the batch whose insert is
\* valid on its own is in the store, whatever happened to the other records.
C4_BestEffort ==
    /\ (pc \in {"insert_vacancies", "done"} /\ Len(log_e) = Len(employers_data)) =>
           \A k \in 1..Len(employers_data) :
               EmployerValidAlone(employers_data[k]) =>
                   HasEmployer(employers, employers_data[k].id)
    /\ BatchesDone =>
           \A k \in 1..Len(vacancies_data) :
               VacancyValidAlone(vacancies_data[k], employers) =>
                   HasVacancy(vacancies, vacancies_data[k].id)

\* ---- C5
LacksRequired(vacancy) ==
    \/ "id" \notin DOMAIN vacancy
    \/ "name" \notin DOMAIN vacancy
    \/ "employer" \notin DOMAIN vacancy

\* C5: of a vacancy batch, exactly the records lacking id, name or employer
\* are dropped before any insert is issued; every other record of the batch
\* is processed (its insert is attempted).  Rows enter the table by an
\* attempted insert only, so no row comes from a dropped record.
C5_Validation ==
    BatchesDone =>
        \A k \in 1..Len(vacancies_data) :
            LacksRequired(vacancies_data[k]) <=> log_v[k] = "skipped"

\* a record was dropped and a later record of the batch was stored
C5_Witness ==
    /\ BatchesDone
    /\ \E k, m \in 1..Len(log_v) :
           /\ k < m
           /\ LacksRequired(vacancies_data[k])
           /\ log_v[k] = "skipped"
           /\ log_v[m] = "ok"
           /\ HasVacancy(vacancies, vacancies_data[m].id)

\* ---- C6
\* a valid vacancy record whose employer id has no row in employers
Orphan(vacancy) ==
    /\ {"id", "name", "employer"} \subseteq DOMAIN vacancy
    /\ vacancy.employer.type = "dict"
    /\ vacancy.id # None /\ vacancy.name # None
    /\ LET eid == Get(vacancy.employer.items, "id", None)
       IN eid # None /\ ~HasEmployer(employers, eid)

C7_FailedFetchSkipped ==
    pc \in {"fetch_employers", "fetch_vacancies", "connect"} =>
        Len(employers_data) =
            Cardinality({k \in 1..Len(emp_fetch) : emp_fetch[k] = "ok"})

\* ---- C8
\* the vacancies with both salary bounds, by position in the table
Priced == {k \in 1..Len(vacancies) :
               vacancies[k].salary_from # None /\ vacancies[k].salary_to # None}

RECURSIVE SumOver(_, _)
SumOver(f, S) ==
    IF S = {} THEN 0
    ELSE LET k == CHOOSE x \in S : TRUE IN f[k] + SumOver(f, S \ {k})

\* salary_from + salary_to, twice the midpoint
TwiceMid == [k \in 1..Len(vacancies) |->
                IF k \in Priced
                THEN The(vacancies[k].salary_from) + The(vacancies[k].salary_to)
                ELSE 0]

\* C8: with at least one vacancy having both bounds, choice 3 answers with
\* one number a that is a whole number nearest to the average of the
\* midpoints (salary_from + salary_to)/2 over the vacancies with both
\* bounds: |a - average| <= 1/2.
C8_AverageOfMidpoints ==
    (shown.choice = "3" /\ Priced # {}) =>
        /\ Len(shown.rows) = 1
        /\ Len(shown.rows[1]) = 1
        /\ shown.rows[1][1] # None
        /\ LET a == The(shown.rows[1][1])
               n == Cardinality(Priced)
               d == 2 * n * a - SumOver(TwiceMid, Priced)
           IN -n <= d /\ d <= n

\* ---- C9
\* C9: with no vacancy having both bounds, get_avg_salary answers with an
\* empty result set and the menu reports that salary data is absent.
C9_EmptyWhenNoSalary ==
    (shown.choice = "3" /\ Priced = {}) =>
        /\ shown.rows = << >>
        /\ shown.text = "absent"

\* ---- C10
\* the rows choice 4 must print when exactly the vacancies in Keep qualify
RowsOf(Keep) ==
    LET Kept(k) == k \in Keep
        idx == SelectSeq([k \in 1..Len(vacancies) |-> k], Kept)
    IN [j \in 1..Len(idx) |->
           [title |-> vacancies[idx[j]].title,
            avg_salary |-> TwiceMid[idx[j]] \div 2]]

====
